---- MODULE Spec2Model ----
(***************************************************************************)
(* Model of excel/analyze_excel.py: a script that loads one workbook,      *)
(* selects its active sheet, prints a header and then prints one line per  *)
(* populated cell of the window rows 1..40 x columns 1..15.                *)
(*                                                                         *)
(* Text is modelled as a sequence of one-character strings, so that        *)
(* formatting (str, f-strings, print) and the prefix test startswith are   *)
(* computed character by character as the script computes them.            *)
(***************************************************************************)
EXTENDS Integers, Sequences, FiniteSets

VARIABLES file, pc, wb, sheet, row, col, visits, out, run, prev

vars == <<file, pc, wb, sheet, row, col, visits, out, run, prev>>

----------------------------------------------------------------------------
(* Program constants: iter_rows(min_row=1, max_row=40, min_col=1,          *)
(* max_col=15).                                                            *)
MinRow == 1
MaxRow == 40
MinCol == 1
MaxCol == 15

(* Bounds of the model: how many cells of a sheet are populated, and how   *)
(* many times the script is run on the same file.                          *)
MaxPopulated == 2
MaxRuns == 2

----------------------------------------------------------------------------
(* Text helpers.                                                           *)

Digits == <<"0", "1", "2", "3", "4", "5", "6", "7", "8", "9">>
Letters == <<"A", "B", "C", "D", "E", "F", "G", "H", "I", "J", "K", "L", "M",
             "N", "O", "P", "Q", "R", "S", "T", "U", "V", "W", "X", "Y", "Z">>

RECURSIVE DecNat(_)
DecNat(n) == IF n < 10 THEN <<Digits[n + 1]>>
                       ELSE DecNat(n \div 10) \o <<Digits[(n % 10) + 1]>>

(* str(int) *)
Dec(n) == IF n < 0 THEN <<"-">> \o DecNat(0 - n) ELSE DecNat(n)

(* openpyxl column letter of a column index, bijective base 26: 1 -> A,    *)
(* 26 -> Z, 27 -> AA.                                                      *)
RECURSIVE ColLetter(_)
ColLetter(c) == IF c <= 26 THEN <<Letters[c]>>
                ELSE ColLetter((c - 1) \div 26) \o <<Letters[((c - 1) % 26) + 1]>>

(* cell.coordinate: column letter followed by the row number.              *)
Coordinate(r, c) == ColLetter(c) \o Dec(r)

(* val.startswith('=') *)
StartsWithEq(val) == Len(val) >= 1 /\ val[1] = "="

(* The lines one print(text) call writes: text followed by a newline,      *)
(* split at every newline character.                                       *)
RECURSIVE SplitLines(_, _)
SplitLines(text, cur) ==
    IF text = <<>> THEN <<cur>>
    ELSE IF Head(text) = "\n" THEN <<cur>> \o SplitLines(Tail(text), <<>>)
    ELSE SplitLines(Tail(text), Append(cur, Head(text)))

PrintLines(text) == SplitLines(text, <<>>)

----------------------------------------------------------------------------
(* Cell values: absent (None), text (a formula is text beginning with =,   *)
(* kept as text because of data_only=False), number, boolean.              *)

None == [kind |-> "none", text |-> <<>>, num |-> 0, flag |-> FALSE]
StrV(s) == [kind |-> "str", text |-> s, num |-> 0, flag |-> FALSE]
IntV(n) == [kind |-> "int", text |-> <<>>, num |-> n, flag |-> FALSE]
BoolV(b) == [kind |-> "bool", text |-> <<>>, num |-> 0, flag |-> b]

(* str(cell.value) *)
Str(v) == CASE v.kind = "str" -> v.text
            [] v.kind = "int" -> Dec(v.num)
            [] v.kind = "bool" -> IF v.flag THEN <<"T", "r", "u", "e">>
                                            ELSE <<"F", "a", "l", "s", "e">>
            [] OTHER -> <<"N", "o", "n", "e">>

FormulaText == <<"=", "A", "1">>
TagLikeText == <<"F", "O", "R", "M", "U", "L", "A", ":", " ", "=">>

(* The values a populated cell holds in the model: a formula, a literal    *)
(* text (one that itself reads like the formula tag, and does not begin    *)
(* with =), the number 0 and the boolean false (both falsy in Python).     *)
Values == {StrV(FormulaText), StrV(TagLikeText), IntV(0), BoolV(FALSE)}

----------------------------------------------------------------------------
(* The workbook file.                                                      *)

(* The cells that may be populated: the first cell, the last column of the *)
(* first row, the first column of the second row, the last cell of the     *)
(* window, and the two cells just outside the last cell of the window.     *)
Positions == {<<MinRow, MinCol>>, <<MinRow, MaxCol>>, <<MinRow + 1, MinCol>>,
              <<MaxRow, MaxCol>>, <<MaxRow + 1, MaxCol>>, <<MaxRow, MaxCol + 1>>}

CellMaps == UNION {[S -> Values] :
                   S \in {T \in SUBSET Positions : Cardinality(T) <= MaxPopulated}}

NoCells == [p \in {} |-> None]

SetMin(S) == CHOOSE x \in S : \A y \in S : x <= y
SetMax(S) == CHOOSE x \in S : \A y \in S : x >= y

(* worksheet.dimensions: the bounding range of the populated cells, A1:A1  *)
(* for a sheet with none.                                                  *)
UsedRange(cells) ==
    IF DOMAIN cells = {} THEN <<"A", "1", ":", "A", "1">>
    ELSE LET rs == {p[1] : p \in DOMAIN cells}
             cs == {p[2] : p \in DOMAIN cells}
         IN Coordinate(SetMin(rs), SetMin(cs)) \o <<":">>
            \o Coordinate(SetMax(rs), SetMax(cs))

SheetTitle == <<"S", "h", "e", "e", "t", "1">>
ChartTitle == <<"C", "h", "a", "r", "t", "1">>

(* What lies at the hard-coded path: nothing, something that is no         *)
(* workbook, or a workbook. The script takes whatever wb.active returns    *)
(* and checks nothing about it: the active sheet of a workbook is a cell   *)
(* worksheet, a chart sheet (an openpyxl Chartsheet has a title and        *)
(* neither dimensions nor iter_rows), or cannot be determined (None).      *)
Book(active, title, cells) ==
    [active |-> active, title |-> title,
     dimensions |-> UsedRange(cells), cells |-> cells]

FileOf(status, book) == [status |-> status, book |-> book]

Files == {FileOf("ok", Book("worksheet", SheetTitle, cm)) : cm \in CellMaps}
         \cup {FileOf("ok", Book("chartsheet", ChartTitle, NoCells)),
               FileOf("ok", Book("none", <<>>, NoCells)),
               FileOf("missing", Book("none", <<>>, NoCells)),
               FileOf("malformed", Book("none", <<>>, NoCells))}

(* cell.value of the cell at (r, c): None when the cell holds nothing.     *)
CellValue(sh, r, c) ==
    IF <<r, c>> \in DOMAIN sh.cells THEN sh.cells[<<r, c>>] ELSE None

----------------------------------------------------------------------------
(* The script.                                                             *)

(* Variants of line 11: no test at all, and a truthiness test              *)
(* (if cell.value:), which also drops 0, False and the empty text.         *)
IsPopulatedAlways(v) == TRUE
IsPopulatedTruthy(v) ==
    /\ v # None
    /\ ~(v.kind = "int" /\ v.num = 0)
    /\ ~(v.kind = "bool" /\ ~v.flag)
    /\ ~(v.kind = "str" /\ v.text = <<>>)

(* Line 11: cell.value is not None.                                        *)
IsPopulated(v) == v # None

(* Variants of lines 13-16: the tag left out, and a line that carries the  *)
(* number of the run.                                                      *)
CellLineAlwaysBare(coord, val) == coord \o <<":", " ">> \o val
CellLineStamped(coord, val) ==
    Dec(run) \o <<" ">> \o coord \o <<":", " ">> \o val

(* Lines 13-16: the line printed for a populated cell.                     *)
CellLine(coord, val) ==
    IF StartsWithEq(val)
    THEN coord \o <<":", " ", "F", "O", "R", "M", "U", "L", "A", ":", " ">> \o val
    ELSE coord \o <<":", " ">> \o val

(* Line 5: f'Sheet: {sheet.title}' *)
TitleText(sh) == <<"S", "h", "e", "e", "t", ":", " ">> \o sh.title

(* Line 6: f'Dimensions: {sheet.dimensions}' *)
DimensionsText(sh) ==
    <<"D", "i", "m", "e", "n", "s", "i", "o", "n", "s", ":", " ">> \o sh.dimensions

(* Variant of line 7: the label without its trailing newline.              *)
LabelTextNoTrail ==
    <<"\n", "=", "=", "=", " ", "A", "l", "l", " ", "c", "e", "l", "l", "s",
      " ", "w", "i", "t", "h", " ", "v", "a", "l", "u", "e", "s", " ",
      "=", "=", "=">>

(* Line 7: '\n=== All cells with values ===\n' *)
LabelText ==
    <<"\n", "=", "=", "=", " ", "A", "l", "l", " ", "c", "e", "l", "l", "s",
      " ", "w", "i", "t", "h", " ", "v", "a", "l", "u", "e", "s", " ",
      "=", "=", "=", "\n">>

(* Variants of lines 9-10: a column-major traversal (iter_cols), and a     *)
(* window one column too wide.                                            *)
AdvanceColumnMajor(r, c) ==
    IF r < MaxRow THEN <<r + 1, c>>
    ELSE IF c < MaxCol THEN <<MinRow, c + 1>>
    ELSE <<MaxRow + 1, MinCol>>
AdvanceWide(r, c) == IF c < MaxCol + 1 THEN <<r, c + 1>> ELSE <<r + 1, MinCol>>

(* Lines 9-10: iter_rows yields rows MinRow..MaxRow, each a tuple of the   *)
(* cells of columns MinCol..MaxCol; the position after (r, c).             *)
Advance(r, c) == IF c < MaxCol THEN <<r, c + 1>> ELSE <<r + 1, MinCol>>

(* Variant of line 9: the last row is left out (range(1, 40)).             *)
ScanDoneEarly(r) == r >= MaxRow

(* Line 9: the row generator is exhausted.                                 *)
ScanDone(r) == r > MaxRow

Init ==
    /\ file \in Files
    /\ pc = "load"
    /\ wb = <<>>
    /\ sheet = <<>>
    /\ row = MinRow
    /\ col = MinCol
    /\ visits = 0
    /\ out = <<>>
    /\ run = 1
    /\ prev = <<>>

(* Line 3: load_workbook succeeds.                                         *)
LoadOk ==
    /\ pc = "load"
    /\ file.status = "ok"
    /\ wb' = <<file.book>>
    /\ pc' = "select"
    /\ UNCHANGED <<file, sheet, row, col, visits, out, run, prev>>

(* Variant of line 3: a progress line is printed before the load.          *)
LoadFailAfterPrint ==
    /\ pc = "load"
    /\ file.status # "ok"
    /\ out' = out \o PrintLines(<<"L", "o", "a", "d", "i", "n", "g">>)
    /\ pc' = "aborted"
    /\ UNCHANGED <<file, wb, sheet, row, col, visits, run, prev>>

(* Line 3: load_workbook raises; nothing catches it.                       *)
LoadFail ==
    /\ pc = "load"
    /\ file.status # "ok"
    /\ pc' = "aborted"
    /\ UNCHANGED <<file, wb, sheet, row, col, visits, out, run, prev>>

(* Line 4: sheet = wb.active; None when there is no active sheet.          *)
SelectActive ==
    /\ pc = "select"
    /\ sheet' = IF wb[1].active = "none" THEN <<>> ELSE wb
    /\ pc' = "title"
    /\ UNCHANGED <<file, wb, row, col, visits, out, run, prev>>

(* Line 5: the f-string reads sheet.title before print is called; with no  *)
(* sheet the attribute access raises.                                      *)
PrintTitle ==
    /\ pc = "title"
    /\ IF sheet = <<>>
       THEN /\ pc' = "aborted"
            /\ out' = out
       ELSE /\ pc' = "dims"
            /\ out' = out \o PrintLines(TitleText(sheet[1]))
    /\ UNCHANGED <<file, wb, sheet, row, col, visits, run, prev>>

(* Line 6: the f-string reads sheet.dimensions, which a chart sheet does   *)
(* not have.                                                               *)
PrintDimensions ==
    /\ pc = "dims"
    /\ IF sheet[1].active = "chartsheet"
       THEN /\ pc' = "aborted"
            /\ out' = out
       ELSE /\ pc' = "label"
            /\ out' = out \o PrintLines(DimensionsText(sheet[1]))
    /\ UNCHANGED <<file, wb, sheet, row, col, visits, run, prev>>

(* Line 7. *)
PrintLabel ==
    /\ pc = "label"
    /\ out' = out \o PrintLines(LabelText)
    /\ pc' = "scan"
    /\ row' = MinRow
    /\ col' = MinCol
    /\ UNCHANGED <<file, wb, sheet, visits, run, prev>>

(* Variant of lines 9-16: the text is stored back into the cell            *)
(* (cell.value = val).                                                     *)
ScanCellStore ==
    /\ pc = "scan"
    /\ ~ScanDone(row)
    /\ LET v == CellValue(sheet[1], row, col)
           stored == [sheet[1] EXCEPT !.cells[<<row, col>>] = StrV(Str(v))]
       IN /\ out' = IF IsPopulated(v)
                    THEN out \o PrintLines(CellLine(Coordinate(row, col), Str(v)))
                    ELSE out
          /\ sheet' = IF IsPopulated(v) THEN <<stored>> ELSE sheet
          /\ wb' = IF IsPopulated(v) THEN <<stored>> ELSE wb
    /\ row' = Advance(row, col)[1]
    /\ col' = Advance(row, col)[2]
    /\ visits' = visits + 1
    /\ UNCHANGED <<file, pc, run, prev>>

(* Lines 9-16: one pass of the inner loop body, for the cell at (row, col).*)
ScanCell ==
    /\ pc = "scan"
    /\ ~ScanDone(row)
    /\ LET v == CellValue(sheet[1], row, col)
       IN out' = IF IsPopulated(v)
                 THEN out \o PrintLines(CellLine(Coordinate(row, col), Str(v)))
                 ELSE out
    /\ row' = Advance(row, col)[1]
    /\ col' = Advance(row, col)[2]
    /\ visits' = visits + 1
    /\ UNCHANGED <<file, pc, wb, sheet, run, prev>>

(* Line 9: the outer loop ends and the script with it.                     *)
Finish ==
    /\ pc = "scan"
    /\ ScanDone(row)
    /\ pc' = "done"
    /\ UNCHANGED <<file, wb, sheet, row, col, visits, out, run, prev>>

Next ==
    \/ LoadOk
    \/ LoadFail
    \/ SelectActive
    \/ PrintTitle
    \/ PrintDimensions
    \/ PrintLabel
    \/ ScanCell
    \/ Finish

Spec == Init /\ [][Next]_vars

(* The script is one sequential process: it always takes its next step.   *)
FairSpec == Spec /\ WF_vars(Next)

(* A further run of the script on the same file: a new process, with      *)
(* nothing kept from the run before but what it wrote to standard output, *)
(* recorded in prev.                                                      *)
Rerun ==
    /\ pc \in {"done", "aborted"}
    /\ run < MaxRuns
    /\ run' = run + 1
    /\ prev' = out
    /\ out' = <<>>
    /\ pc' = "load"
    /\ wb' = <<>>
    /\ sheet' = <<>>
    /\ row' = MinRow
    /\ col' = MinCol
    /\ visits' = 0
    /\ UNCHANGED file

NextRuns ==
    \/ Next
    \/ Rerun

SpecRuns == Init /\ [][NextRuns]_vars

----------------------------------------------------------------------------
(* Reading the output back: a cell line is a line that begins with a       *)
(* coordinate (capital letters, then digits) followed by ": ". No header   *)
(* line has that shape.                                                    *)

LetterSet == {Letters[i] : i \in 1..Len(Letters)}
DigitSet == {Digits[i] : i \in 1..Len(Digits)}

IndexIn(seq, ch) == CHOOSE i \in 1..Len(seq) : seq[i] = ch
LetterIndex == [ch \in LetterSet |-> IndexIn(Letters, ch)]
DigitIndex == [ch \in DigitSet |-> IndexIn(Digits, ch)]

RECURSIVE CountFrom(_, _, _)
CountFrom(line, i, S) ==
    IF i <= Len(line) /\ line[i] \in S THEN 1 + CountFrom(line, i + 1, S) ELSE 0

NLetters(line) == CountFrom(line, 1, LetterSet)
CoordLen(line) ==
    LET nl == NLetters(line)
    IN nl + CountFrom(line, nl + 1, DigitSet)

IsCellLine(line) ==
    LET n == CoordLen(line)
    IN /\ Len(line) >= n + 2
       /\ line[1] \in LetterSet
       /\ line[n] \in DigitSet
       /\ line[n + 1] = ":"
       /\ line[n + 2] = " "

RECURSIVE ColOf(_)
ColOf(ls) == IF ls = <<>> THEN 0
             ELSE 26 * ColOf(SubSeq(ls, 1, Len(ls) - 1)) + LetterIndex[ls[Len(ls)]]

RECURSIVE RowOf(_)
RowOf(ds) == IF ds = <<>> THEN 0
             ELSE 10 * RowOf(SubSeq(ds, 1, Len(ds) - 1)) + (DigitIndex[ds[Len(ds)]] - 1)

(* The cell <<row, column>> a cell line names. *)
LineCell(line) ==
    LET nl == NLetters(line)
    IN <<RowOf(SubSeq(line, nl + 1, nl + CountFrom(line, nl + 1, DigitSet))),
         ColOf(SubSeq(line, 1, nl))>>

CellLineIdx == {i \in 1..Len(out) : IsCellLine(out[i])}

(* The workbook as it lies in the file. *)
FileCells == file.book.cells
FileValue(p) == IF p \in DOMAIN FileCells THEN FileCells[p] ELSE None

Window == (MinRow..MaxRow) \X (MinCol..MaxCol)
PopulatedInWindow == DOMAIN FileCells \cap Window
PopulatedOutside == DOMAIN FileCells \ Window

Tag == <<"F", "O", "R", "M", "U", "L", "A", ":", " ">>
TaggedForm(p) == Coordinate(p[1], p[2]) \o <<":", " ">> \o Tag \o Str(FileValue(p))
BareForm(p) == Coordinate(p[1], p[2]) \o <<":", " ">> \o Str(FileValue(p))

RowMajorBefore(p, q) == p[1] < q[1] \/ (p[1] = q[1] /\ p[2] < q[2])

Terminated == pc \in {"done", "aborted"}

----------------------------------------------------------------------------
(* C1. Classification: every cell line printed is the tagged line          *)
(* "<coordinate>: FORMULA: <text>" exactly when the text of the cell's     *)
(* value begins with "=", and is the bare line "<coordinate>: <text>" in   *)
(* every other case, <text> being str of the cell's value.                 *)
C1_Classification ==
    \A i \in CellLineIdx :
        LET p == LineCell(out[i])
            t == Str(FileValue(p))
        IN /\ (out[i] = TaggedForm(p)) <=> (Len(t) >= 1 /\ t[1] = "=")
           /\ (out[i] # TaggedForm(p)) => (out[i] = BareForm(p))

C1_Witness ==
    /\ pc = "done"
    /\ \E i, j \in CellLineIdx :
          /\ out[i] = TaggedForm(LineCell(out[i]))
          /\ Str(FileValue(LineCell(out[j]))) = TagLikeText
          /\ out[j] = BareForm(LineCell(out[j]))

----------------------------------------------------------------------------
(* C2. Ordering: of any two cell lines, the earlier one names a cell that  *)
(* comes strictly earlier in row-major order (a lower row, or the same row *)
(* and a lower column).                                                    *)
C2_Ordering ==
    \A i, j \in CellLineIdx :
        i < j => RowMajorBefore(LineCell(out[i]), LineCell(out[j]))

C2_Witness ==
    /\ pc = "done"
    /\ \E i, j \in CellLineIdx :
          /\ i < j
          /\ LineCell(out[i]) = <<MinRow, MaxCol>>
          /\ LineCell(out[j]) = <<MinRow + 1, MinCol>>

----------------------------------------------------------------------------
(* C3. Window boundedness: every cell line names a cell of rows 1..40 and  *)
(* columns 1..15, and no populated cell outside that window has a line.    *)
C3_WindowBounded ==
    /\ \A i \in CellLineIdx :
          /\ LineCell(out[i])[1] \in 1..40
          /\ LineCell(out[i])[2] \in 1..15
    /\ \A p \in PopulatedOutside :
          \A i \in 1..Len(out) : out[i] # TaggedForm(p) /\ out[i] # BareForm(p)

C3_Witness ==
    /\ pc = "done"
    /\ <<MaxRow + 1, MaxCol>> \in PopulatedOutside
    /\ <<MaxRow, MaxCol + 1>> \in PopulatedOutside

----------------------------------------------------------------------------
(* C4. Skip-empty: no cell line names a cell whose value is absent; when   *)
(* no cell of the window is populated the finished run has printed at      *)
(* least the header and no cell line.                                      *)
C4_SkipEmpty ==
    /\ \A i \in CellLineIdx : FileValue(LineCell(out[i])) # None
    /\ (pc = "done" /\ PopulatedInWindow = {}) =>
          /\ CellLineIdx = {}
          /\ Len(out) >= 2
          /\ out[1] = <<"S", "h", "e", "e", "t", ":", " ">> \o file.book.title
          /\ out[2] = <<"D", "i", "m", "e", "n", "s", "i", "o", "n", "s", ":", " ">>
                      \o file.book.dimensions

C4_Witness ==
    /\ pc = "done"
    /\ PopulatedInWindow = {}
    /\ PopulatedOutside # {}

----------------------------------------------------------------------------
(* C5. Completeness: when a run whose load succeeded has ended, every      *)
(* populated cell of the window has exactly one line, which carries its    *)
(* own coordinate and the text of its value, and there are as many cell    *)
(* lines as populated cells of the window. A present value that is falsy   *)
(* (0, False) has its line too.                                            *)
C5_Completeness ==
    (Terminated /\ file.status = "ok") =>
        /\ \A p \in PopulatedInWindow :
              Cardinality({i \in 1..Len(out) :
                             out[i] = TaggedForm(p) \/ out[i] = BareForm(p)}) = 1
        /\ Cardinality(CellLineIdx) = Cardinality(PopulatedInWindow)

C5_Witness ==
    /\ pc = "done"
    /\ FileValue(<<MinRow, MinCol>>) = IntV(0)
    /\ FileValue(<<MaxRow, MaxCol>>) = BoolV(FALSE)
    /\ Cardinality(CellLineIdx) = 2

----------------------------------------------------------------------------
(* The header as the file determines it. *)
SheetLine == <<"S", "h", "e", "e", "t", ":", " ">> \o file.book.title
DimsLine ==
    <<"D", "i", "m", "e", "n", "s", "i", "o", "n", "s", ":", " ">>
    \o file.book.dimensions
LabelLine ==
    <<"=", "=", "=", " ", "A", "l", "l", " ", "c", "e", "l", "l", "s", " ",
      "w", "i", "t", "h", " ", "v", "a", "l", "u", "e", "s", " ", "=", "=", "=">>
Blank == <<>>

(* The output before the first cell line (all of it when there is none). *)
FirstCellLine ==
    IF CellLineIdx = {} THEN Len(out) + 1
    ELSE CHOOSE i \in CellLineIdx : \A j \in CellLineIdx : i <= j
HeaderBlock == SubSeq(out, 1, FirstCellLine - 1)

----------------------------------------------------------------------------
(* C6 as claimed. All-or-nothing: a run that aborts has printed nothing,   *)
(* and a run that does not abort prints every line.                        *)
C6_Original ==
    /\ pc = "aborted" => out = <<>>
    /\ pc = "done" => Len(out) = Len(HeaderBlock) + Cardinality(PopulatedInWindow)

(* C6 as amended. A run whose load fails, or whose active sheet cannot be  *)
(* determined, aborts before any output; a missing file gives no output at *)
(* all. The only run that aborts after output is the one whose active      *)
(* sheet is a chart sheet: it aborts with the sheet-name line printed. A   *)
(* run that does not abort prints every line.                              *)
C6_AbortBeforeOutput ==
    /\ file.status # "ok" => out = <<>>
    /\ (pc = "aborted" /\ file.book.active = "none") => out = <<>>
    /\ (pc = "aborted" /\ out # <<>>) =>
          (file.book.active = "chartsheet" /\ out = <<SheetLine>>)
    /\ pc = "done" => Len(out) = Len(HeaderBlock) + Cardinality(PopulatedInWindow)

C6_Witness ==
    /\ pc = "aborted"
    /\ file.status = "missing"
    /\ out = <<>>

----------------------------------------------------------------------------
(* C7 as claimed. The output before the first cell line is exactly four    *)
(* lines: the sheet name, the dimensions, a blank line, the section label. *)
C7_Original ==
    pc = "done" => HeaderBlock = <<SheetLine, DimsLine, Blank, LabelLine>>

(* C7 as amended. On a run that reaches the scan, the output before the    *)
(* first cell line is exactly five lines: the sheet name, the dimensions,  *)
(* a blank line, the section label and a second blank line; no cell line   *)
(* is printed before the scan, and the header is there also when no cell   *)
(* of the window is populated.                                             *)
C7_Header ==
    /\ pc \in {"scan", "done"} =>
          HeaderBlock = <<SheetLine, DimsLine, Blank, LabelLine, Blank>>
    /\ CellLineIdx # {} => pc \in {"scan", "done"}

C7_Witness ==
    /\ pc = "done"
    /\ PopulatedInWindow = {}
    /\ out = <<SheetLine, DimsLine, Blank, LabelLine, Blank>>

----------------------------------------------------------------------------
----------------------------------------------------------------------------
(* C9. Linear control flow and termination: the position in the script     *)
(* never moves back and moves forward in every step but a scan step; the   *)
(* n-th scan step visits the n-th cell of the window in row-major order,   *)
(* so that a finished run has visited each of the 600 cells exactly once;  *)
(* a run on a workbook whose active sheet is a worksheet ends finished,    *)
(* whatever the sheet's populated extent; and every run terminates.        *)
PcRank(p) ==
    CASE p = "load" -> 1
      [] p = "select" -> 2
      [] p = "title" -> 3
      [] p = "dims" -> 4
      [] p = "label" -> 5
      [] p = "scan" -> 6
      [] OTHER -> 7

C9_Step ==
    /\ PcRank(pc') >= PcRank(pc)
    /\ PcRank(pc') = PcRank(pc) => pc = "scan"
    /\ visits' # visits =>
          /\ pc = "scan"
          /\ visits' = visits + 1
          /\ row \in 1..40
          /\ col \in 1..15
          /\ visits = (row - 1) * 15 + (col - 1)

C9_LinearFlow ==
    /\ [][C9_Step]_vars
    /\ [](pc = "done" => visits = 600)
    /\ []((Terminated /\ file.status = "ok" /\ file.book.active = "worksheet")
            => pc = "done")
    /\ <>Terminated

C9_Witness ==
    /\ pc = "done"
    /\ visits = 600
    /\ DOMAIN FileCells = {}

----------------------------------------------------------------------------
====
